---- MODULE Spec2Model ----
(***************************************************************************)
(* A model of mgptree.py (MGPTree 2.0): the name search fetchIDNum, the    *)
(* crawl scrape / Node.__init__ that builds node_dict, and the renderer    *)
(* graph / Node.dot_string.                                                *)
(*                                                                         *)
(* The Mathematics Genealogy site is the environment.  The page it serves  *)
(* for an id is chosen when the id is first requested and stays the same   *)
(* for the rest of the run (site); a request may also fail at transport    *)
(* level, which raises out of requests.post.                               *)
(***************************************************************************)
EXTENDS Integers, Sequences, FiniteSets, TLC

\* ------------------------------------------------------------------ bounds
MaxId == 2
MaxAdvs == 2
MaxSeeds == 2
MaxGens == 2
MaxDepth == 2
MaxRows == 2
MaxBroken == 1
MaxLinks == 4

Ids == 0 .. MaxId

VARIABLES
    pc,          \* where the program is: in scrape at "names" (line 185) or "loop"
                 \* (line 187), "done" (scrape returned), "plotted" (graph
                 \* returned), "raised" (an exception or sys.exit ended the run);
                 \* for fetchIDNum alone "search" and "returned"
    error,       \* the exception that ended the run, "none" while there is none
    verbose_on,  \* Node.verbose_on / options.verbose_on
    nnames,      \* len(names), the number of names given to scrape
    max_gen,     \* gens, passed down as max_gen
    looked,      \* the values fetchIDNum returned, in the order of names (line 185)
    pairs,       \* the ids left by the filter of line 186
    next,        \* index in pairs of the pair the for loop of line 187 is at
    site,        \* the pages the site has served so far, by id
    requests,    \* the ids of the pages requested by Node.__init__, in order
    heap,        \* the Node objects in order of creation
    node_dict,   \* node_dict: id -> index in heap of the Node registered for it
    stack,       \* the active calls of Node.__init__, innermost last
    gen_depth,   \* the gen_depth given to graph
    out,         \* what graph returned
    query,       \* fetchIDNum alone: its arguments (last, first, middle)
    text,        \* fetchIDNum alone: the rows of the search response
    found        \* fetchIDNum alone: what the call did

vars == << pc, error, verbose_on, nnames, max_gen, looked, pairs, next, site,
           requests, heap, node_dict, stack, gen_depth, out, query, text, found >>

\* ------------------------------------------------------------ the names
\* A string is a sequence of one-character strings.
Lower(c) == IF c = "A" THEN "a" ELSE IF c = "B" THEN "b" ELSE c

\* str.lower()
LowerStr(s) == [i \in 1 .. Len(s) |-> Lower(s[i])]

\* str.strip(): leading and trailing whitespace removed
RECURSIVE LStrip(_)
LStrip(s) == IF s # << >> /\ Head(s) = " " THEN LStrip(Tail(s)) ELSE s

RECURSIVE RStrip(_)
RStrip(s) ==
    IF s # << >> /\ s[Len(s)] = " " THEN RStrip(SubSeq(s, 1, Len(s) - 1)) ELSE s

Strip(s) == RStrip(LStrip(s))

\* str.replace(',', '')
NoCommas(s) == SelectSeq(s, LAMBDA c : c # ",")

\* str.split(): the maximal runs of non-whitespace characters
RECURSIVE SplitFrom(_, _, _)
SplitFrom(s, word, words) ==
    IF s = << >>
    THEN IF word = << >> THEN words ELSE Append(words, word)
    ELSE IF Head(s) = " "
         THEN SplitFrom(Tail(s), << >>,
                        IF word = << >> THEN words ELSE Append(words, word))
         ELSE SplitFrom(Tail(s), Append(word, Head(s)), words)

Split(s) == SplitFrom(s, << >>, << >>)

\* str.index(','): the position of the first comma (0-based)
RECURSIVE Index(_)
Index(s) == IF Head(s) = "," THEN 0 ELSE 1 + Index(Tail(s))

HasComma(s) == \E i \in 1 .. Len(s) : s[i] = ","

\* parseName, lines 154-162: the list names
NameList(namestring) ==
    IF HasComma(namestring)
    THEN LET kk == Index(namestring)
             last == LowerStr(Strip(SubSeq(namestring, 1, kk)))
             rest == NoCommas(SubSeq(namestring, kk + 1, Len(namestring)))
             words == Split(rest)
         IN  << last >> \o [i \in 1 .. Len(words) |-> LowerStr(Strip(words[i]))]
    ELSE LET words == Split(NoCommas(namestring))
         IN  [i \in 1 .. Len(words) |-> LowerStr(Strip(words[i]))]

\* parseName, lines 164-171: (last, first, middle), or sys.exit(1)
parseName(namestring) ==
    LET names == NameList(namestring)
    IN  IF Len(names) = 2
        THEN [exit |-> FALSE, name |-> << names[1], names[2], << >> >>]
        ELSE IF Len(names) >= 3
        THEN [exit |-> FALSE, name |-> << names[1], names[2], names[3] >>]
        ELSE [exit |-> TRUE, name |-> << >>]

\* sameName without the calls of lower()
sameNameExact(name1, name2) ==
    name1[1] = name2[1] /\ name1[2] = name2[2]

\* sameName: last and first names compared in lower case, middle not at all
sameName(name1, name2) ==
    LET last1 == LowerStr(name1[1])
        last2 == LowerStr(name2[1])
        first1 == LowerStr(name1[2])
        first2 == LowerStr(name2[2])
    IN  last1 = last2 /\ first1 = first2

\* The name strings of the model: lines of a names file, and the display
\* names in the rows of a search response.
NameStrings ==
    { << "A", "b", ",", " ", "B" >>,
      << "A", "B", ",", " ", "b", " ", "A" >>,
      << "a", "b", ",", "a" >>,
      << "b", " ", "B" >>,
      << "A", " ", "b", ",", " ", "B" >>,
      << "B" >> }

\* The names scrape is called with: those validate_scrape parses from a
\* file, and one that was not put in lower case.
QueryNames ==
    { parseName(l).name : l \in { m \in NameStrings : ~parseName(m).exit } }
        \cup { << << "A", "b" >>, << "B" >>, << >> >> }

\* A search response, as the matches of the pattern of line 317: rows of an
\* id and a display name.
Rows == [id : Ids, name : NameStrings]
SearchTexts == UNION { [1 .. n -> Rows] : n \in 0 .. MaxRows }

\* What a call of fetchIDNum does: it returns ret after writing stderr, or
\* it leaves the program through the sys.exit of parseName.
Returned(ret, stderr) == [exit |-> FALSE, ret |-> ret, stderr |-> stderr]
Exited == [exit |-> TRUE, ret |-> -1, stderr |-> "Only detected a single name"]
NotCalled == [exit |-> FALSE, ret |-> -1, stderr |-> "not called"]

\* fetchIDNum, lines 316-329
fetchIDNum(last, first, middle, rows) ==
    IF \E i \in 1 .. Len(rows) : parseName(rows[i].name).exit
    THEN Exited
    ELSE LET parsed == [i \in 1 .. Len(rows) |->
                          << rows[i].id, parseName(rows[i].name).name >>]
             kept == SelectSeq(parsed,
                        LAMBDA pair : sameName(pair[2], << last, first, middle >>))
         IN  IF Len(kept) = 0 THEN Returned(-1, "Unable to find a record")
             ELSE IF Len(kept) > 1 THEN Returned(-1, "Found multiple records")
             ELSE Returned(kept[1][1], "")

\* ------------------------------------------------------------- the pages
\* What Node.__init__ and extractPersonalData read off a page: whether the
\* <title> and the title-span patterns match, whether "Advisor" occurs, and
\* the ids found by 'id.php\?id=(\d+)' between "Advisor" and "Student".
AdvLists == UNION { [1 .. n -> Ids] : n \in 0 .. MaxAdvs }

Pages ==
    { [name |-> n, title |-> t, advisor |-> a, advs |-> l] :
        n \in BOOLEAN, t \in BOOLEAN, a \in BOOLEAN, l \in AdvLists }

\* A page without "Advisor" has no advisor text to search for ids.
WellFormedPage(p) == (~p.advisor) => p.advs = << >>

\* A page on which one of the three markers is missing.
Broken(p) == ~(p.name /\ p.title /\ p.advisor)

\* The pages the site can serve for id, given what it has served before: the
\* page it served for id last time, or else any page, as long as no more
\* than MaxBroken of the pages served are broken ones.
Served(id) ==
    IF id \in DOMAIN site THEN { site[id] }
    ELSE { p \in Pages :
             /\ WellFormedPage(p)
             /\ Broken(p) =>
                  Cardinality({ i \in DOMAIN site : Broken(site[i]) }) < MaxBroken }

\* ------------------------------------------------------------ Node objects
\* The object of lines 352-354 with gen left at 0
NewNodeAtZero(id_number, gen) ==
    [ id_num |-> id_number, gen |-> 0, parsed |-> FALSE,
      name |-> FALSE, title |-> FALSE, advisors |-> << >> ]

\* Node.__init__, lines 352-354: the object as it is before the request.
NewNode(id_number, gen) ==
    [ id_num |-> id_number, gen |-> gen, parsed |-> FALSE,
      name |-> FALSE, title |-> FALSE, advisors |-> << >> ]

\* extractPersonalData setting nothing
extractNothing(node, page) == node

\* extractPersonalData: year_of_doctorate, institution, nationality and
\* advisors are always set; name and title only when their pattern matches.
extractPersonalData(node, page) ==
    [ node EXCEPT !.parsed = TRUE, !.name = page.name, !.title = page.title,
                  !.advisors = << >> ]

\* advised_by as an assignment in place of append
advised_by_last(node, other) ==
    [ node EXCEPT !.advisors = << other >> ]

\* advised_by: self.advisors.append( other_node )
advised_by(node, other) ==
    [ node EXCEPT !.advisors = Append(@, other) ]

Top == stack[Len(stack)]
Pop(s) == SubSeq(s, 1, Len(s) - 1)

\* ------------------------------------------------------------------ Init
Init ==
    /\ pc = "names"
    /\ error = "none"
    /\ verbose_on \in BOOLEAN
    /\ nnames \in 0 .. MaxSeeds
    /\ max_gen \in 0 .. MaxGens
    /\ looked = << >>
    /\ pairs = << >>
    /\ next = 1
    /\ site = << >>
    /\ requests = << >>
    /\ heap = << >>
    /\ node_dict = << >>
    /\ stack = << >>
    /\ gen_depth = 0
    /\ out = [raised |-> FALSE, text |-> << >>]
    /\ query = << >>
    /\ text = << >>
    /\ found = NotCalled


\* ---------------------------------------------------------------- scrape
\* An exception leaves scrape: every active call of Node.__init__ is
\* abandoned and node_dict is not returned.
Raise(e) ==
    /\ pc' = "raised"
    /\ error' = e
    /\ stack' = << >>

\* Node( id_number, gen, max_gen, node_dict ) up to line 354: the new object
\* is registered under its id before anything is requested.
Node(id_number, gen) ==
    /\ heap' = Append(heap, NewNode(id_number, gen))
    /\ node_dict' = (id_number :> (Len(heap) + 1)) @@ node_dict
    /\ stack' = Append(stack, [self |-> Len(heap) + 1, at |-> "request",
                               advs |-> << >>])

\* scrape, line 185: one call of fetchIDNum of the list comprehension.
ScrapeFetchIDNum ==
    /\ pc = "names"
    /\ Len(looked) < nnames
    /\ \E name \in QueryNames, rows \in SearchTexts :
         LET r == fetchIDNum(name[1], name[2], name[3], rows)
         IN  IF r.exit
             THEN /\ Raise("SystemExit")
                  /\ UNCHANGED looked
             ELSE /\ looked' = Append(looked, r.ret)
                  /\ UNCHANGED << pc, error, stack >>
    /\ UNCHANGED << verbose_on, nnames, max_gen, pairs, next, site, requests,
                    heap, node_dict, gen_depth, out, query, text, found >>

\* scrape, line 186: pairs = filter( lambda pair : pair[1] > 0, pairs )
FilterPair(id) == id > 0

ScrapeFilter ==
    /\ pc = "names"
    /\ Len(looked) = nnames
    /\ pairs' = SelectSeq(looked, FilterPair)
    /\ pc' = "loop"
    /\ UNCHANGED << error, verbose_on, nnames, max_gen, looked, next, site,
                    requests, heap, node_dict, stack, gen_depth, out, query,
                    text, found >>

\* scrape, lines 187-188: Node( pair[1], 0, gens, node_dict ) for the next pair
ScrapeNode ==
    /\ pc = "loop"
    /\ stack = << >>
    /\ next <= Len(pairs)
    /\ Node(pairs[next], 0)
    /\ UNCHANGED << pc, error, verbose_on, nnames, max_gen, looked, pairs, next,
                    site, requests, gen_depth, out, query, text, found >>

\* scrape, line 190: return node_dict
ScrapeReturn ==
    /\ pc = "loop"
    /\ stack = << >>
    /\ next > Len(pairs)
    /\ pc' = "done"
    /\ UNCHANGED << error, verbose_on, nnames, max_gen, looked, pairs, next,
                    site, requests, heap, node_dict, stack, gen_depth, out,
                    query, text, found >>

\* --------------------------------------------------------- Node.__init__
\* Lines 364-375 for a page that was read: the ids the for loop of line 377
\* goes through, or the AttributeError of line 368 (self.name was never set).
NoName(page) == ~page.name

\* Advisors with the test of line 364 as gen > max_gen
AdvisorsPastLimit(gen, page) ==
    IF gen > max_gen THEN [raise |-> FALSE, advs |-> << >>]
    ELSE IF ~page.advisor
         THEN [raise |-> NoName(page), advs |-> << >>]
         ELSE [raise |-> FALSE, advs |-> page.advs]

Advisors(gen, page) ==
    IF gen >= max_gen THEN [raise |-> FALSE, advs |-> << >>]
    ELSE IF ~page.advisor
         THEN [raise |-> NoName(page), advs |-> << >>]
         ELSE [raise |-> FALSE, advs |-> page.advs]

\* Line 357: requests.post raises.
RequestFails ==
    /\ pc = "loop"
    /\ stack # << >>
    /\ Top.at = "request"
    /\ requests' = Append(requests, heap[Top.self].id_num)
    /\ Raise("RequestException")
    /\ UNCHANGED << verbose_on, nnames, max_gen, looked, pairs, next, site,
                    heap, node_dict, gen_depth, out, query, text, found >>

\* Lines 356-375: the page is requested and read, extractPersonalData sets
\* the fields, the verbose line prints self.name and self.title, and the
\* advisor ids are collected.
NodeRequest ==
    /\ pc = "loop"
    /\ stack # << >>
    /\ Top.at = "request"
    /\ LET self == Top.self
           id == heap[self].id_num
       IN  \E page \in Served(id) :
             LET adv == Advisors(heap[self].gen, page)
             IN  /\ site' = (id :> page) @@ site
                 /\ requests' = Append(requests, id)
                 /\ heap' = [heap EXCEPT ![self] = extractPersonalData(@, page)]
                 /\ IF (verbose_on /\ ~(page.name /\ page.title)) \/ adv.raise
                    THEN Raise("AttributeError")
                    ELSE /\ stack' = [stack EXCEPT ![Len(stack)] =
                                        [@ EXCEPT !.at = "for", !.advs = adv.advs]]
                         /\ UNCHANGED << pc, error >>
    /\ UNCHANGED << verbose_on, nnames, max_gen, looked, pairs, next,
                    node_dict, gen_depth, out, query, text, found >>

\* Line 378 without the lookup: no advisor is taken to be registered
NeverKnown(adv) == FALSE

\* Line 378: adv in node_dict
Known(adv) == adv \in DOMAIN node_dict

\* Lines 377-379: the advisor is in node_dict already.
NodeKnownAdvisor ==
    /\ pc = "loop"
    /\ stack # << >>
    /\ Top.at = "for"
    /\ Top.advs # << >>
    /\ Known(Head(Top.advs))
    /\ heap' = [heap EXCEPT ![Top.self] =
                   advised_by(@, node_dict[Head(Top.advs)])]
    /\ stack' = [stack EXCEPT ![Len(stack)] = [@ EXCEPT !.advs = Tail(@)]]
    /\ UNCHANGED << pc, error, verbose_on, nnames, max_gen, looked, pairs, next,
                    site, requests, node_dict, gen_depth, out, query, text,
                    found >>

\* Lines 380-381: advisor = Node( adv, gen + 1, max_gen, node_dict )
NodeNewAdvisor ==
    /\ pc = "loop"
    /\ stack # << >>
    /\ Top.at = "for"
    /\ Top.advs # << >>
    /\ ~Known(Head(Top.advs))
    /\ Node(Head(Top.advs), heap[Top.self].gen + 1)
    /\ UNCHANGED << pc, error, verbose_on, nnames, max_gen, looked, pairs, next,
                    site, requests, gen_depth, out, query, text, found >>

\* Node.__init__ returns (line 364, line 369 or the end of the for loop).  A
\* caller inside the for loop goes on with line 382,
\* self.advised_by( advisor ); scrape goes on with its next pair.
NodeReturn ==
    /\ pc = "loop"
    /\ stack # << >>
    /\ Top.at = "for"
    /\ Top.advs = << >>
    /\ IF Len(stack) = 1
       THEN /\ stack' = << >>
            /\ next' = next + 1
            /\ UNCHANGED heap
       ELSE LET caller == stack[Len(stack) - 1]
            IN  /\ heap' = [heap EXCEPT ![caller.self] = advised_by(@, Top.self)]
                /\ stack' = [Pop(stack) EXCEPT ![Len(stack) - 1] =
                                [@ EXCEPT !.advs = Tail(@)]]
                /\ UNCHANGED next
    /\ UNCHANGED << pc, error, verbose_on, nnames, max_gen, looked, pairs, site,
                    requests, node_dict, gen_depth, out, query, text, found >>

\* ----------------------------------------------------------------- graph
NodeLine(node) == [kind |-> "node", id |-> node.id_num, adv |-> node.id_num]
EdgeLine(node, adv) == [kind |-> "edge", id |-> node.id_num, adv |-> adv.id_num]

\* dot_string( print_advs ) with brief=True: the node line, then one line
\* "node<adv>->node<self>" for each entry of self.advisors.  Reading
\* self.name raises AttributeError when extractPersonalData did not set it.
dot_string(node, print_advs) ==
    IF ~(node.parsed /\ node.name)
    THEN [raised |-> TRUE, text |-> << >>]
    ELSE [raised |-> FALSE,
          text |-> << NodeLine(node) >> \o
                   (IF print_advs
                    THEN [i \in 1 .. Len(node.advisors) |->
                            EdgeLine(node, heap[node.advisors[i]])]
                    ELSE << >>)]

\* graph, lines 248-252, over the keys still to visit.
RECURSIVE graphFrom(_, _, _)
graphFrom(keys, depth, node_string) ==
    IF keys = {} THEN [raised |-> FALSE, text |-> node_string]
    ELSE LET key == CHOOSE k \in keys : \A j \in keys : k <= j
             node == heap[node_dict[key]]
         IN  IF node.gen <= depth
             THEN LET str == dot_string(node, node.gen # depth)
                  IN  IF str.raised THEN str
                      ELSE graphFrom(keys \ {key}, depth, node_string \o str.text)
             ELSE graphFrom(keys \ {key}, depth, node_string)

graph(depth) == graphFrom(DOMAIN node_dict, depth, << >>)

\* main, line 98: graph( nodes, int(options.gen_depth) ) on the dictionary
\* scrape returned.
Graph ==
    /\ pc = "done"
    /\ \E depth \in 0 .. MaxDepth :
         /\ gen_depth' = depth
         /\ out' = graph(depth)
    /\ pc' = "plotted"
    /\ UNCHANGED << error, verbose_on, nnames, max_gen, looked, pairs, next,
                    site, requests, heap, node_dict, stack, query, text, found >>

Next ==
    \/ ScrapeFetchIDNum
    \/ ScrapeFilter
    \/ ScrapeNode
    \/ ScrapeReturn
    \/ RequestFails
    \/ NodeRequest
    \/ NodeKnownAdvisor
    \/ NodeNewAdvisor
    \/ NodeReturn
    \/ Graph

Spec == Init /\ [][Next]_vars

\* ------------------------------------------- scrape on a complete site
\* The crawl of a site that is fixed in advance, with one identity more
\* than the names can resolve to: every page has all three markers, and
\* the pages list no more than MaxLinks advisor ids between them.
SiteIds == 0 .. MaxId + 1

CompletePages ==
    { [name |-> TRUE, title |-> TRUE, advisor |-> TRUE, advs |-> l] :
        l \in UNION { [1 .. n -> SiteIds] : n \in 0 .. MaxAdvs } }

RECURSIVE Links(_, _)
Links(s, ids) ==
    IF ids = {} THEN 0
    ELSE LET i == CHOOSE j \in ids : TRUE
         IN  Len(s[i].advs) + Links(s, ids \ {i})

CompleteSites ==
    { s \in [SiteIds -> CompletePages] : Links(s, SiteIds) <= MaxLinks }

\* scrape after line 185, for at most one name and whatever fetchIDNum
\* returned for it, with Node.verbose_on at its default of line 349.
InitReach ==
    /\ pc = "names"
    /\ error = "none"
    /\ verbose_on = FALSE
    /\ looked \in { << >> } \cup { << r >> : r \in {-1} \cup Ids }
    /\ nnames = Len(looked)
    /\ max_gen \in 0 .. MaxGens
    /\ pairs = << >>
    /\ next = 1
    /\ site \in CompleteSites
    /\ requests = << >>
    /\ heap = << >>
    /\ node_dict = << >>
    /\ stack = << >>
    /\ gen_depth = 0
    /\ out = [raised |-> FALSE, text |-> << >>]
    /\ query = << >>
    /\ text = << >>
    /\ found = NotCalled

NextReach ==
    \/ ScrapeFilter
    \/ ScrapeNode
    \/ ScrapeReturn
    \/ RequestFails
    \/ NodeRequest
    \/ NodeKnownAdvisor
    \/ NodeNewAdvisor
    \/ NodeReturn
    \/ Graph

SpecReach == InitReach /\ [][NextReach]_vars

\* ------------------------------------------------------ fetchIDNum alone
\* One call of fetchIDNum, for any name and any search response.
InitResolve ==
    /\ pc = "search"
    /\ error = "none"
    /\ verbose_on \in BOOLEAN
    /\ nnames = 0
    /\ max_gen = 0
    /\ looked = << >>
    /\ pairs = << >>
    /\ next = 1
    /\ site = << >>
    /\ requests = << >>
    /\ heap = << >>
    /\ node_dict = << >>
    /\ stack = << >>
    /\ gen_depth = 0
    /\ out = [raised |-> FALSE, text |-> << >>]
    /\ query \in QueryNames
    /\ text \in SearchTexts
    /\ found = NotCalled

FetchIDNum ==
    /\ pc = "search"
    /\ found' = fetchIDNum(query[1], query[2], query[3], text)
    /\ pc' = IF found'.exit THEN "raised" ELSE "returned"
    /\ error' = IF found'.exit THEN "SystemExit" ELSE error
    /\ UNCHANGED << verbose_on, nnames, max_gen, looked, pairs, next, site,
                    requests, heap, node_dict, stack, gen_depth, out, query,
                    text >>

NextResolve == FetchIDNum

SpecResolve == InitResolve /\ [][NextResolve]_vars


\* ================================================================ claims
\* The heap indices of the records node_dict holds.
InGraph == { node_dict[i] : i \in DOMAIN node_dict }

\* The Node objects built for identity i so far.
Built(i) == { k \in 1 .. Len(heap) : heap[k].id_num = i }

\* How often the page of identity i was requested so far.
Requested(i) == Cardinality({ n \in 1 .. Len(requests) : requests[n] = i })

\* The for loop of line 377 is at an advisor that node_dict already holds.
AtKnownAdvisor ==
    /\ pc = "loop"
    /\ stack # << >>
    /\ Top.at = "for"
    /\ Top.advs # << >>
    /\ Head(Top.advs) \in DOMAIN node_dict

\* ---- C1
\* C1 (as claimed): during one crawl at most one record is ever built for an
\* identity, also when a seed's identity is already in the graph.
C1_OneRecordPerIdentity ==
    \A i \in Ids : Cardinality(Built(i)) <= 1

\* ---- C2
\* A measure of the work left: the names still to look up, the pairs still
\* to crawl, the identities not yet registered and the advisor ids the
\* active calls still have to go through.
Weight == MaxAdvs + 3

FrameRank(f) == IF f.at = "request" THEN MaxAdvs + 2 ELSE Len(f.advs) + 1

RECURSIVE StackRank(_)
StackRank(s) == IF s = << >> THEN 0 ELSE FrameRank(Head(s)) + StackRank(Tail(s))

Rank ==
    IF pc = "names"
    THEN 3 + Weight * (2 * nnames + MaxId + 1) + (nnames - Len(looked))
    ELSE IF pc = "loop"
    THEN 2 + Weight * (2 * (Len(pairs) - next + 1)
                         - (IF stack = << >> THEN 0 ELSE 1))
           + Weight * Cardinality(Ids \ DOMAIN node_dict)
           + StackRank(stack)
    ELSE IF pc = "done" THEN 1
    ELSE 0

\* C2: the crawl terminates for every advisor relation, cyclic ones
\* included (every step lowers the measure Rank, which is never negative),
\* and a step at an advisor that is already registered appends the
\* registered record to the advisors of the current record, requests no
\* page and builds no record.
C2_CyclesTerminate ==
    [][ /\ Rank >= 0
        /\ Rank' >= 0
        /\ Rank' < Rank
        /\ AtKnownAdvisor =>
             /\ requests' = requests
             /\ Len(heap') = Len(heap)
             /\ node_dict' = node_dict
             /\ heap'[Top.self].advisors =
                  Append(heap[Top.self].advisors, node_dict[Head(Top.advs)])
      ]_vars

\* Witness of C2: the crawl has returned from the two-cycle a -> b -> a:
\* the record of b holds an edge back to its ancestor a, and each page was
\* requested once.
C2_Witness ==
    /\ pc = "done"
    /\ \E a, b \in InGraph :
         /\ a # b
         /\ \E n \in 1 .. Len(heap[a].advisors) : heap[a].advisors[n] = b
         /\ \E n \in 1 .. Len(heap[b].advisors) : heap[b].advisors[n] = a
         /\ heap[b].gen = heap[a].gen + 1
         /\ Requested(heap[a].id_num) = 1
         /\ Requested(heap[b].id_num) = 1

\* ---- C3
\* C3: every record has 0 <= gen <= max_gen; a record with gen = max_gen
\* holds no advisor edges, its call has no advisor ids to go through, and
\* no call of Node.__init__ was made on its behalf.
C3_GenerationBound ==
    /\ \A k \in 1 .. Len(heap) :
         /\ 0 <= heap[k].gen
         /\ heap[k].gen <= max_gen
         /\ heap[k].gen = max_gen => heap[k].advisors = << >>
    /\ \A n \in 1 .. Len(stack) :
         heap[stack[n].self].gen = max_gen =>
            /\ stack[n].advs = << >>
            /\ n = Len(stack)

\* Witness of C3: the crawl returned a graph with a record at the last
\* generation whose page lists advisors, of which one is not in the graph.
C3_Witness ==
    /\ pc = "done"
    /\ max_gen >= 1
    /\ \E k \in InGraph :
         /\ heap[k].gen = max_gen
         /\ site[heap[k].id_num].advisor
         /\ \E n \in 1 .. Len(site[heap[k].id_num].advs) :
              site[heap[k].id_num].advs[n] \notin DOMAIN node_dict

\* ---- C4
\* C4 (as claimed): once node_dict holds a record for an identity, the
\* record node_dict holds for it keeps that generation in every later state.
C4_GenerationNeverRevised ==
    [][ \A i \in DOMAIN node_dict :
          /\ i \in DOMAIN node_dict'
          /\ heap'[node_dict'[i]].gen = heap[node_dict[i]].gen ]_vars

\* ---- C5
\* C5 (as claimed): a failed request does not end the crawl.
C5_FetchFailureIsLocal ==
    error = "RequestException" => pc # "raised"

\* ---- C6
\* C6 (as claimed): a page without advisor section, read for a record below
\* the generation limit, never ends the crawl (the record is kept as a
\* leaf and the crawl goes on), whatever other markers the page lacks.
C6_MissingAdvisorIsLeaf ==
    (pc = "raised" /\ error = "AttributeError") =>
        LET node == heap[Len(heap)]
        IN  site[node.id_num].advisor \/ node.gen >= max_gen


\* ---- C7
\* Equality of two strings up to the case of their letters.
SameLetter(c, d) == c = d \/ {c, d} = {"a", "A"} \/ {c, d} = {"b", "B"}

EqualIgnoringCase(s, t) ==
    Len(s) = Len(t) /\ \A i \in 1 .. Len(s) : SameLetter(s[i], t[i])

\* The rows of the response whose last and first names are the query's.
Matching ==
    { i \in 1 .. Len(text) :
        LET name == parseName(text[i].name).name
        IN  /\ EqualIgnoringCase(name[1], query[1])
            /\ EqualIgnoringCase(name[2], query[2]) }

C8_ResolvedSeedsCrawled ==
    pc = "done" =>
        /\ \A n \in 1 .. Len(looked) :
              looked[n] >= 0 => looked[n] \in DOMAIN node_dict
        /\ max_gen = 0 =>
              DOMAIN node_dict = { looked[n] : n \in { m \in 1 .. Len(looked) : looked[m] >= 0 } }

\* ---- C9
\* The identities graph wrote a node line for.
NodeLines(i) == { n \in 1 .. Len(out.text) :
                    out.text[n].kind = "node" /\ out.text[n].id = i }

\* C9 (as claimed): in the text graph returns, both ends of every edge
\* line are identities with a node line in the same text.
C9_EdgesBetweenEmittedNodes ==
    pc = "plotted" =>
        \A n \in 1 .. Len(out.text) :
            out.text[n].kind = "edge" =>
                /\ NodeLines(out.text[n].id) # {}
                /\ NodeLines(out.text[n].adv) # {}

\* ---- C10
\* C10 (as claimed): graph writes exactly one node line for every record of
\* node_dict with gen <= gen_depth, and none for any other record.
C10_NodesUpToDepth ==
    pc = "plotted" =>
        \A i \in DOMAIN node_dict :
            Cardinality(NodeLines(i)) =
                (IF heap[node_dict[i]].gen <= gen_depth THEN 1 ELSE 0)

\* ---- C11
\* The edge lines graph wrote for the record of identity i.
EdgeLines(i) == { n \in 1 .. Len(out.text) :
                    out.text[n].kind = "edge" /\ out.text[n].id = i }

\* C11 (as claimed): graph writes the edge advisor -> advisee for every
\* entry of the advisors of a record with gen < gen_depth and no edge for
\* any other record; with gen_depth = 0 it writes no edge at all, and for a
\* graph of one seed record exactly one node line.
C11_EdgesAboveDepth ==
    pc = "plotted" =>
        /\ \A i \in DOMAIN node_dict :
              LET node == heap[node_dict[i]]
              IN  IF node.gen < gen_depth
                  THEN /\ Cardinality(EdgeLines(i)) = Len(node.advisors)
                       /\ \A a \in 1 .. Len(node.advisors) :
                             \E n \in EdgeLines(i) :
                                out.text[n].adv = heap[node.advisors[a]].id_num
                  ELSE EdgeLines(i) = {}
        /\ gen_depth = 0 =>
              \A n \in 1 .. Len(out.text) : out.text[n].kind # "edge"
        /\ (gen_depth = 0 /\ Cardinality(DOMAIN node_dict) = 1) =>
              Len(out.text) = 1 /\ out.text[1].kind = "node"

\* ---- C12
\* The identities the advisors of a record point at.
AdvisorIds(node) == { heap[node.advisors[n]].id_num : n \in 1 .. Len(node.advisors) }

\* The identities a page lists as advisors.
Listed(page) == { page.advs[n] : n \in 1 .. Len(page.advs) }

\* C12: when scrape returns, every record of node_dict below the generation
\* limit whose page has an advisor section holds an edge to every identity
\* the page lists, and every identity an edge of a record of node_dict
\* points at is a key of node_dict.
C12_AllListedAdvisorsLinked ==
    pc = "done" =>
        \A i \in DOMAIN node_dict :
            LET node == heap[node_dict[i]]
            IN  /\ (node.gen < max_gen /\ site[i].advisor) =>
                      Listed(site[i]) \subseteq AdvisorIds(node)
                /\ AdvisorIds(node) \subseteq DOMAIN node_dict

\* Witness of C12: scrape returned a graph in which a record holds one edge
\* to an advisor built by its own call and one to an advisor that was
\* registered before.
C12_Witness ==
    /\ pc = "done"
    /\ \E i \in DOMAIN node_dict :
         LET node == heap[node_dict[i]]
         IN  /\ Len(node.advisors) = 2
             /\ Cardinality(AdvisorIds(node)) = 2
             /\ \E a, b \in 1 .. 2 :
                   /\ heap[node.advisors[a]].gen = node.gen + 1
                   /\ heap[node.advisors[b]].gen # node.gen + 1

\* ---- C13
\* The identities at most n advisor hops from a crawled seed, along the
\* advisor lists of the pages of the site.
RECURSIVE Within(_)
Within(n) ==
    IF n = 0 THEN { pairs[k] : k \in 1 .. Len(pairs) }
    ELSE LET near == Within(n - 1)
         IN  near \cup UNION { Listed(site[j]) : j \in near \cap DOMAIN site }

\* C13 (as claimed): when scrape returns from a site all of whose pages are
\* complete, every identity at most max_gen advisor hops from a crawled
\* seed is a key of node_dict.
C13_AllWithinLimitCrawled ==
    (pc = "done" /\ \A j \in DOMAIN site : ~Broken(site[j])) =>
        Within(max_gen) \subseteq DOMAIN node_dict

\* ---- C14
\* C14 (as claimed): node_dict never holds a record that has not been
\* fetched and parsed.
C14_ParsedBeforeVisible ==
    \A k \in InGraph : heap[k].parsed

\* C14 (amended): a new record is built and put in node_dict first, then
\* its page is requested and parsed, and only then are its advisors gone
\* through.  The n-th request is for the n-th record built; a record is
\* unparsed only while it is the newest one and its own request is pending
\* or has failed, which ends the crawl; every record of an active call is
\* the one node_dict holds for its identity; a call in its for loop, and a
\* record with advisors, has been parsed; when scrape returns every record
\* is parsed.
C14_RegisteredThenParsed ==
    /\ Len(requests) <= Len(heap)
    /\ \A n \in 1 .. Len(requests) : requests[n] = heap[n].id_num
    /\ \A k \in 1 .. Len(heap) :
         /\ heap[k].parsed => k <= Len(requests)
         /\ heap[k].advisors # << >> => heap[k].parsed
         /\ ~heap[k].parsed =>
              /\ k = Len(heap)
              /\ \/ /\ pc = "loop"
                    /\ stack # << >>
                    /\ Top.self = k
                    /\ Top.at = "request"
                    /\ Len(requests) = k - 1
                 \/ /\ pc = "raised"
                    /\ error = "RequestException"
                    /\ Len(requests) = k
    /\ \A n \in 1 .. Len(stack) :
         /\ heap[stack[n].self].id_num \in DOMAIN node_dict
         /\ node_dict[heap[stack[n].self].id_num] = stack[n].self
         /\ stack[n].at = "for" => heap[stack[n].self].parsed
    /\ pc \in {"done", "plotted"} => \A k \in 1 .. Len(heap) : heap[k].parsed

\* Witness of C14: the record of an advisor is in node_dict, unparsed, with
\* its request pending, while the record that lists it is parsed.
C14_Witness ==
    /\ pc = "loop"
    /\ Len(stack) = 2
    /\ Top.at = "request"
    /\ Top.self \in InGraph
    /\ ~heap[Top.self].parsed
    /\ heap[stack[1].self].parsed
    /\ Len(requests) = Len(heap) - 1

\* ---- C15
\* C15 (as claimed): every record that was parsed has its name and title
\* defined (year_of_doctorate, institution and nationality are defined once
\* parsed), and neither the error message of line 368 nor the rendering of
\* a node ever fails on an undefined field.
C15_FieldsAlwaysDefined ==
    /\ \A k \in 1 .. Len(heap) :
         heap[k].parsed => heap[k].name /\ heap[k].title
    /\ error # "AttributeError"
    /\ pc = "plotted" => ~out.raised

\* ---- C16
\* There is an advisor path of g hops from a crawled seed to identity i,
\* along the advisor lists of the pages served.
RECURSIVE PathFromSeed(_, _)
PathFromSeed(i, g) ==
    IF g = 0 THEN \E k \in 1 .. Len(pairs) : pairs[k] = i
    ELSE \E j \in DOMAIN site :
            /\ site[j].advisor
            /\ i \in Listed(site[j])
            /\ PathFromSeed(j, g - 1)

\* C16: the generation of every record is the length of an advisor path of
\* the site from a crawled seed to it: a record with gen 0 is a seed, and a
\* record with gen g > 0 is listed on the page of a record built with
\* gen g - 1.
C16_GenerationIsPathLength ==
    \A k \in 1 .. Len(heap) :
        /\ PathFromSeed(heap[k].id_num, heap[k].gen)
        /\ heap[k].gen > 0 =>
              \E j \in 1 .. Len(heap) :
                 /\ heap[j].gen = heap[k].gen - 1
                 /\ heap[j].parsed
                 /\ site[heap[j].id_num].advisor
                 /\ heap[k].id_num \in Listed(site[heap[j].id_num])

\* Witness of C16: scrape returned a graph with a record two hops from the
\* seed that the page of the seed lists as well.
C16_Witness ==
    /\ pc = "done"
    /\ \E k \in InGraph :
         /\ heap[k].gen = 2
         /\ \E j \in InGraph :
              /\ heap[j].gen = 0
              /\ heap[k].id_num \in Listed(site[heap[j].id_num])

\* ---- C17
\* C17 (as claimed): when scrape returns, no record of node_dict holds two
\* advisor edges to the same identity.
C17_AdvisorsAreASet ==
    pc = "done" =>
        \A k \in InGraph :
            Cardinality(AdvisorIds(heap[k])) = Len(heap[k].advisors)

\* ---- C18
\* C18 (as claimed): when scrape returns, the record node_dict holds for an
\* identity that fetchIDNum returned for a name has gen 0.
C18_SeedsAtGenerationZero ==
    pc = "done" =>
        \A n \in 1 .. Len(looked) :
            (looked[n] >= 0 /\ looked[n] \in DOMAIN node_dict) =>
                heap[node_dict[looked[n]]].gen = 0

====
